---- MODULE Spec2Model ----
(***************************************************************************)
(* A model of karthick18/mxj as far as its sources are given:              *)
(*   src/x2j-wrapper/x2j.go : MapValue, recast, hasAttributes,             *)
(*                            NewAttributeMap, ValuesForKey, hasKey        *)
(*   src/anyxml.go          : AnyXml, AnyXmlIndent, the stream driver main *)
(*                                                                         *)
(* Go strings are sequences of one-character strings, so that              *)
(* strings.Split, key[1:] and the strconv parsers are computed and not     *)
(* assumed.  A Go interface{} value is a record tagged with its dynamic    *)
(* type.                                                                   *)
(***************************************************************************)
EXTENDS Integers, Sequences, FiniteSets, TLC

VARIABLES
    m,          \* the caller's root map, passed to MapValue / ValuesForKey
    attr,       \* the caller's attribute-match map (a Go map: shared by reference)
    call,       \* the last call made: its name and arguments
    ret,        \* what that call returned (or that it panicked)
    useGoXmlEmptyElemSyntax,  \* the package's process-wide encoder toggle
    pc,         \* the stream driver: position in main's loop
    input,      \* the stream driver: what the remaining reads of stdin will meet
    err,        \* the stream driver: err of the last XmlReaderToJsonWriter call
    reads,      \* the stream driver: documents read from stdin so far
    writes,     \* the stream driver: documents written to stdout so far
    printed     \* the stream driver: errors printed by fmt.Println so far

vars == <<m, attr, call, ret, useGoXmlEmptyElemSyntax,
          pc, input, err, reads, writes, printed>>

(***************************************************************************)
(* Bounds of the model.                                                    *)
(***************************************************************************)
MaxPathLen == 3     \* longest path string, in characters
MaxListLen == 2     \* longest generated list
MaxNumLen == 4      \* longest numeric-looking text given to recast
MaxWordLen == 4     \* longest alphabetic text given to recast
MaxMixLen == 2      \* longest text over both alphabets given to recast
MaxEncLen == 2      \* longest top-level list given to AnyXml
MaxMsgs == 3        \* most documents the input stream holds

(***************************************************************************)
(* Go values: interface{} tagged with its dynamic type.                    *)
(***************************************************************************)
Str(s) == [t |-> "string", s |-> s]
\* a float64: "fin" is mant * 10^exp with mant not divisible by 10 (0 is 0,0);
\* k is "fin", "+Inf", "-Inf" or "NaN"
Float(k, mant, exp) == [t |-> "float64", k |-> k, mant |-> mant, exp |-> exp]
Bool(b) == [t |-> "bool", b |-> b]
Map(kv) == [t |-> "map", kv |-> kv]
List(l) == [t |-> "list", l |-> l]
Nil == [t |-> "nil"]

EmptyKV == [k \in {} |-> Nil]
IsMap(v) == v.t = "map"
IsList(v) == v.t = "list"
HasKey(v, k) == k \in DOMAIN v.kv

\* Go's == on two interface values holding string, float64 or bool: equal
\* dynamic types and equal values; NaN is equal to nothing.
InterfaceEq(a, b) ==
    /\ a.t = b.t
    /\ a.t \in {"string", "float64", "bool"}
    /\ ~(a.t = "float64" /\ (a.k = "NaN" \/ b.k = "NaN"))
    /\ a = b

\* error values: nil, or errors.New(msg + arg)
NilErr == [msg |-> "<nil>", arg |-> <<>>]
Err(msg, arg) == [msg |-> msg, arg |-> arg]
\* a (value, error) return pair
Ret(v, e) == [v |-> v, err |-> e]
Panic == [panic |-> "interface conversion: interface {} is not string"]

(***************************************************************************)
(* Strings.                                                                *)
(***************************************************************************)
\* the strings of n characters of chars
StrsOfLen(chars, n) == [1..n -> chars]

\* every string over chars of length 0..n
Strs(chars, n) == UNION {StrsOfLen(chars, i) : i \in 0..n}

\* strings.Split(s, sep) for a one-character sep: never empty, "" gives [""]
RECURSIVE Split(_, _)
Split(s, sep) ==
    IF \A i \in 1..Len(s) : s[i] # sep THEN <<s>>
    ELSE LET i == CHOOSE i \in 1..Len(s) :
                      s[i] = sep /\ \A j \in 1..(i - 1) : s[j] # sep
         IN <<SubSeq(s, 1, i - 1)>> \o Split(SubSeq(s, i + 1, Len(s)), sep)

Lower ==
    "A" :> "a" @@ "E" :> "e" @@ "F" :> "f" @@ "I" :> "i" @@ "L" :> "l" @@
    "N" :> "n" @@ "R" :> "r" @@ "S" :> "s" @@ "T" :> "t" @@ "U" :> "u" @@
    "Y" :> "y"
ToLower(s) == [i \in 1..Len(s) |-> IF s[i] \in DOMAIN Lower THEN Lower[s[i]] ELSE s[i]]

(***************************************************************************)
(* strconv.ParseBool and strconv.ParseFloat(s, 64), as the Go library      *)
(* documents them, for texts without hexadecimal prefix or underscore.     *)
(***************************************************************************)
BoolTrue ==
    {<<"1">>, <<"t">>, <<"T">>, <<"t","r","u","e">>, <<"T","R","U","E">>,
     <<"T","r","u","e">>}
BoolFalse ==
    {<<"0">>, <<"f">>, <<"F">>, <<"f","a","l","s","e">>,
     <<"F","A","L","S","E">>, <<"F","a","l","s","e">>}
\* (value, err == nil)
ParseBool(s) ==
    IF s \in BoolTrue THEN [ok |-> TRUE, b |-> TRUE]
    ELSE IF s \in BoolFalse THEN [ok |-> TRUE, b |-> FALSE]
    ELSE [ok |-> FALSE, b |-> FALSE]

DigitVal ==
    "0" :> 0 @@ "1" :> 1 @@ "2" :> 2 @@ "3" :> 3 @@ "4" :> 4 @@
    "5" :> 5 @@ "6" :> 6 @@ "7" :> 7 @@ "8" :> 8 @@ "9" :> 9
IsDigit(c) == c \in DOMAIN DigitVal
IsSign(c) == c \in {"+", "-"}

RECURSIVE DigitsVal(_)
DigitsVal(s) ==
    IF s = <<>> THEN 0
    ELSE 10 * DigitsVal(SubSeq(s, 1, Len(s) - 1)) + DigitVal[s[Len(s)]]

RECURSIVE Pow10(_)
Pow10(n) == IF n = 0 THEN 1 ELSE 10 * Pow10(n - 1)

RECURSIVE NumDigits(_)
NumDigits(n) == IF n < 10 THEN 1 ELSE 1 + NumDigits(n \div 10)

\* mant * 10^exp with the trailing zeros of mant moved into exp
RECURSIVE Normalize(_, _)
Normalize(mant, exp) ==
    IF mant = 0 THEN <<0, 0>>
    ELSE IF mant % 10 = 0 THEN Normalize(mant \div 10, exp + 1)
    ELSE <<mant, exp>>

\* the largest float64 is 1.7976931348623157e308; texts above it are ErrRange
MaxFloatExp10 == 308
MaxFloatLead == 179769313
\* texts below 1e-324 round to zero
MinFloatExp10 == -324

\* the mantissa text: decimal digits with at most one point, at least one digit
IsMantissa(s) ==
    /\ \A i \in 1..Len(s) : IsDigit(s[i]) \/ s[i] = "."
    /\ Cardinality({i \in 1..Len(s) : s[i] = "."}) <= 1
    /\ \E i \in 1..Len(s) : IsDigit(s[i])
\* the exponent text after e/E: an optional sign and at least one digit
IsExponent(s) ==
    LET d == IF s # <<>> /\ IsSign(s[1]) THEN Tail(s) ELSE s
    IN d # <<>> /\ \A i \in 1..Len(d) : IsDigit(d[i])

\* "inf", "infinity" (signed or not) and "nan" (unsigned), in any case
ParseSpecial(s) ==
    LET signed == s # <<>> /\ IsSign(s[1])
        body == ToLower(IF signed THEN Tail(s) ELSE s)
    IN IF body \in {<<"i","n","f">>, <<"i","n","f","i","n","i","t","y">>}
       THEN [ok |-> TRUE,
             f |-> Float(IF signed /\ s[1] = "-" THEN "-Inf" ELSE "+Inf", 0, 0)]
       ELSE IF ~signed /\ body = <<"n","a","n">>
       THEN [ok |-> TRUE, f |-> Float("NaN", 0, 0)]
       ELSE [ok |-> FALSE, f |-> Float("fin", 0, 0)]

\* (value, err == nil)
ParseFloat(s) ==
    LET bad == [ok |-> FALSE, f |-> Float("fin", 0, 0)]
        neg == s # <<>> /\ s[1] = "-"
        body == IF s # <<>> /\ IsSign(s[1]) THEN Tail(s) ELSE s
        es == {i \in 1..Len(body) : body[i] \in {"e", "E"}}
        ePos == IF es = {} THEN Len(body) + 1
                ELSE CHOOSE i \in es : \A j \in es : i <= j
        mantText == SubSeq(body, 1, ePos - 1)
        expText == SubSeq(body, ePos + 1, Len(body))
    IN IF ParseSpecial(s).ok THEN ParseSpecial(s)
       ELSE IF ~IsMantissa(mantText) \/ (es # {} /\ ~IsExponent(expText)) THEN bad
       ELSE
         LET point == {i \in 1..Len(mantText) : mantText[i] = "."}
             frac == IF point = {} THEN 0
                     ELSE Len(mantText) - (CHOOSE i \in point : TRUE)
             digits == SelectSeq(mantText, IsDigit)
             expNeg == expText # <<>> /\ expText[1] = "-"
             expDigits == SelectSeq(expText, IsDigit)
             expVal == (IF expNeg THEN -1 ELSE 1) * DigitsVal(expDigits)
             n == Normalize(DigitsVal(digits), expVal - frac)
             order == NumDigits(n[1]) + n[2] - 1
             lead == n[1] * Pow10(9 - NumDigits(n[1]))
         IN IF n[1] # 0 /\ (order > MaxFloatExp10
                            \/ (order = MaxFloatExp10 /\ lead > MaxFloatLead))
            THEN bad      \* ErrRange: err != nil
            ELSE IF n[1] = 0 \/ order < MinFloatExp10
            THEN [ok |-> TRUE, f |-> Float("fin", 0, 0)]
            ELSE [ok |-> TRUE,
                  f |-> Float("fin", (IF neg THEN -1 ELSE 1) * n[1], n[2])]

(***************************************************************************)
(* recast - try to cast string values to bool or float64                   *)
(***************************************************************************)
recastBoolFirst(s, r) ==
    IF r /\ ParseBool(s).ok THEN Bool(ParseBool(s).b)
    ELSE IF r /\ ParseFloat(s).ok THEN ParseFloat(s).f
    ELSE Str(s)

recast(s, r) ==
    IF r /\ ParseFloat(s).ok THEN ParseFloat(s).f
    ELSE IF r /\ ParseBool(s).ok THEN Bool(ParseBool(s).b)
    ELSE Str(s)

(***************************************************************************)
(* fmt.Sprintf("%v", x) for a string, float64 or bool x.                   *)
(***************************************************************************)
DigitChar == <<"0", "1", "2", "3", "4", "5", "6", "7", "8", "9">>

RECURSIVE Itoa(_)
Itoa(n) == IF n < 10 THEN <<DigitChar[n + 1]>>
           ELSE Itoa(n \div 10) \o <<DigitChar[(n % 10) + 1]>>

Zeros(n) == [i \in 1..n |-> "0"]

\* %v of a float64 is strconv's 'g' format with the shortest digits
FormatFloat(f) ==
    IF f.k = "NaN" THEN <<"N", "a", "N">>
    ELSE IF f.k = "+Inf" THEN <<"+", "I", "n", "f">>
    ELSE IF f.k = "-Inf" THEN <<"-", "I", "n", "f">>
    ELSE IF f.mant = 0 THEN <<"0">>
    ELSE
      LET sign == IF f.mant < 0 THEN <<"-">> ELSE <<>>
          ds == Itoa(IF f.mant < 0 THEN -f.mant ELSE f.mant)
          d == Len(ds)
          order == d + f.exp - 1
          absOrder == IF order < 0 THEN -order ELSE order
      IN sign \o
         (IF order < -4 \/ order >= 21
          THEN <<ds[1]>> \o (IF d > 1 THEN <<".">> \o Tail(ds) ELSE <<>>)
               \o <<"e", IF order < 0 THEN "-" ELSE "+">>
               \o (IF absOrder < 10 THEN <<"0">> ELSE <<>>) \o Itoa(absOrder)
          ELSE IF f.exp >= 0 THEN ds \o Zeros(f.exp)
          ELSE IF order >= 0
          THEN SubSeq(ds, 1, d + f.exp) \o <<".">> \o SubSeq(ds, d + f.exp + 1, d)
          ELSE <<"0", ".">> \o Zeros(absOrder - 1) \o ds)

Sprint(x) ==
    IF x.t = "string" THEN x.s
    ELSE IF x.t = "float64" THEN FormatFloat(x)
    ELSE IF x.b THEN <<"t", "r", "u", "e">>
    ELSE <<"f", "a", "l", "s", "e">>

(***************************************************************************)
(* Go's map iteration order is not specified.  A range over a map visits   *)
(* its keys in the order they have in ord, one of KeyOrders.               *)
(***************************************************************************)
kA == <<"a">>
kEmpty == <<>>
kI == <<"-", "i">>
kJ == <<"-", "j">>
kText == <<"#", "t", "e", "x", "t">>
kId == <<"-", "i", "d">>
kBook == <<"b", "o", "o", "k">>
kBooks == <<"b", "o", "o", "k", "s">>

kY == <<"y">>
kW == <<"w">>

KeyOrder == <<kEmpty, kA, kI, kJ, kId, kText, kBook, kBooks, kW, kY>>
Reverse(s) == [i \in 1..Len(s) |-> s[Len(s) + 1 - i]]
KeyOrders == {KeyOrder, Reverse(KeyOrder)}
\* the keys of kv in the order a range over the map meets them
RangeKeys(kv, ord) == SelectSeq(ord, LAMBDA k : k \in DOMAIN kv)

(***************************************************************************)
(* hasAttributes() - interface{} equality works for string, float64, bool  *)
(***************************************************************************)
\* val != vv at x2j.go:312, comparing as text instead of as interface values
attrDiffersLoose(val, vv) ==
    LET text(x) == IF x.t = "string" THEN recast(x.s, TRUE) ELSE x
    IN ~InterfaceEq(text(val), text(vv))

\* val != vv at x2j.go:312
attrDiffers(val, vv) == ~InterfaceEq(val, vv)

\* the range over a (x2j.go:309-315) from the i-th key on, then the result
RECURSIVE matchAttrs(_, _, _, _)
matchAttrs(nv, a, keys, i) ==
    IF i > Len(keys)
    THEN IF kText \in DOMAIN nv THEN Ret(nv[kText], NilErr)
         ELSE Ret(Map(nv), NilErr)
    ELSE LET key == keys[i]
         IN IF key \notin DOMAIN nv
            THEN Ret(Nil, Err("no attribute with name: ", Tail(key)))
            ELSE IF attrDiffers(a[key], nv[key])
            THEN Ret(Nil, Err("no attribute key:value pair: ",
                              Tail(key) \o <<":">> \o Sprint(a[key])))
            ELSE matchAttrs(nv, a, keys, i + 1)

RECURSIVE hasAttributes(_, _, _)

\* the list case keeping the last member that matches
RECURSIVE listMembersLast(_, _, _, _)
listMembersLast(l, i, a, ord) ==
    IF i > Len(l)
    THEN Ret(Nil, Err("no list member with matching attributes", <<>>))
    ELSE LET rest == listMembersLast(l, i + 1, a, ord)
         IN IF rest.err = NilErr THEN rest ELSE hasAttributes(l[i], a, ord)

\* the range over the list (x2j.go:300-305) from the i-th member on
RECURSIVE listMembers(_, _, _, _)
listMembers(l, i, a, ord) ==
    IF i > Len(l)
    THEN Ret(Nil, Err("no list member with matching attributes", <<>>))
    ELSE LET r == hasAttributes(l[i], a, ord)
         IN IF r.err = NilErr THEN r ELSE listMembers(l, i + 1, a, ord)

hasAttributes(v, a, ord) ==
    IF IsList(v) THEN listMembers(v.l, 1, a, ord)
    ELSE IF IsMap(v) THEN matchAttrs(v.kv, a, RangeKeys(a, ord), 1)
    ELSE Ret(Nil, Err("no match for attributes", <<>>))

(***************************************************************************)
(* MapValue - retrieves value based on walking the map, 'm'.               *)
(***************************************************************************)
\* len(attr) for a map that may be nil
LenAttr(a) == IF a = Nil THEN 0 ELSE Cardinality(DOMAIN a.kv)

\* x2j.go:237: len(r) == 1 && r[0] == true
RecastAsked(r) == Len(r) = 1 /\ r[1] = TRUE

\* x2j.go:239 panics on v.(string) when some value of attr is not a string
RecastPanics(a, r) ==
    RecastAsked(r) /\ a # Nil /\ \E k \in DOMAIN a.kv : a.kv[k].t # "string"

\* attr after the loop at x2j.go:238-240 has run over the keys in done
recastAttr(a, done) ==
    IF a = Nil THEN Nil
    ELSE Map([k \in DOMAIN a.kv |->
                 IF k \in done THEN recast(a.kv[k].s, TRUE) ELSE a.kv[k]])

\* the loop at x2j.go:254-271 from the i-th key on; cur is the loop's m
RECURSIVE walk(_, _, _, _, _, _)
walk(keys, i, cur, v, isMap, okey) ==
    IF i > Len(keys) THEN Ret(v, NilErr)
    ELSE LET key == keys[i]
         IN IF ~isMap THEN Ret(Nil, Err("no keys beyond: ", okey))
            ELSE IF key \notin DOMAIN cur
            THEN Ret(Nil, Err("no key in map: ", key))
            ELSE LET vv == cur[key]
                 IN walk(keys, i + 1, IF IsMap(vv) THEN vv.kv ELSE cur,
                         vv, IsMap(vv), key)

\* MapValue after the recast loop: a is attr as that loop left it
MapValue(root, path, a, ord) ==
    LET keys == Split(path, ".")
    IN IF keys[1] = <<>> /\ LenAttr(a) = 0 THEN Ret(root, NilErr)
       ELSE LET w == walk(keys, 1, root.kv, root, TRUE, <<>>)
            IN IF w.err # NilErr THEN w
               ELSE IF a = Nil THEN w
               ELSE hasAttributes(w.v, a.kv, ord)

(***************************************************************************)
(* NewAttributeMap() - map of attributes=value entries, "-"+name -> value  *)
(***************************************************************************)
RECURSIVE newAttributeEntries(_, _, _)
newAttributeEntries(kv, i, acc) ==
    IF i > Len(kv) THEN Ret(Map(acc), NilErr)
    ELSE LET vv == Split(kv[i], ":")
         IN IF Len(vv) # 2
            THEN Ret(Nil, Err("attribute not \"name:value\" pair: ", kv[i]))
            ELSE LET key == <<"-">> \o vv[1]
                 IN newAttributeEntries(kv, i + 1,
                        [k \in DOMAIN acc \cup {key} |->
                            IF k = key THEN Str(vv[2]) ELSE acc[k]])

NewAttributeMap(kv) ==
    IF Len(kv) = 0 THEN Ret(Nil, NilErr)
    ELSE newAttributeEntries(kv, 1, EmptyKV)

(***************************************************************************)
(* ValuesForKey - return all values in map associated with 'key'           *)
(***************************************************************************)
RECURSIVE hasKey(_, _, _, _)

\* hasKey over each of vals in turn, from the i-th on
RECURSIVE hasKeyEach(_, _, _, _, _)
hasKeyEach(vals, i, key, out, ord) ==
    IF i > Len(vals) THEN out
    ELSE hasKeyEach(vals, i + 1, key, hasKey(vals[i], key, out, ord), ord)

\* hasKey that appends the members of a list found under key one by one
hasKeyFlatten(iv, key, out, ord) ==
    IF IsMap(iv)
    THEN LET ks == RangeKeys(iv.kv, ord)
             found == IF key \notin DOMAIN iv.kv THEN out
                      ELSE IF IsList(iv.kv[key]) THEN out \o iv.kv[key].l
                      ELSE Append(out, iv.kv[key])
         IN hasKeyEach([i \in 1..Len(ks) |-> iv.kv[ks[i]]], 1, key, found, ord)
    ELSE IF IsList(iv) THEN hasKeyEach(iv.l, 1, key, out, ord)
    ELSE out

\* hasKey that does not look inside a value it has collected
hasKeyShallow(iv, key, out, ord) ==
    IF IsMap(iv)
    THEN IF key \in DOMAIN iv.kv THEN Append(out, iv.kv[key])
         ELSE LET ks == RangeKeys(iv.kv, ord)
              IN hasKeyEach([i \in 1..Len(ks) |-> iv.kv[ks[i]]], 1, key, out, ord)
    ELSE IF IsList(iv) THEN hasKeyEach(iv.l, 1, key, out, ord)
    ELSE out

\* out is *ret on entry; the value is *ret on return
hasKey(iv, key, out, ord) ==
    IF IsMap(iv)
    THEN LET ks == RangeKeys(iv.kv, ord)
             found == IF key \in DOMAIN iv.kv THEN Append(out, iv.kv[key])
                      ELSE out
         IN hasKeyEach([i \in 1..Len(ks) |-> iv.kv[ks[i]]], 1, key, found, ord)
    ELSE IF IsList(iv) THEN hasKeyEach(iv.l, 1, key, out, ord)
    ELSE out

\* a []interface{} result: Nil is the nil slice
ValuesForKey(root, key, ord) ==
    LET out == hasKey(root, key, <<>>, ord)
    IN IF Len(out) > 0 THEN List(out) ELSE Nil

(***************************************************************************)
(* The values the callers hold.                                            *)
(***************************************************************************)
Str7 == Str(<<"7">>)
StrA == Str(<<"A">>)
StrB == Str(<<"B">>)
Num7 == Float("fin", 7, 0)
Scalars == {Str7, Num7}

\* an element with attributes: "-i" is "7" or 7.0, "-j" is "7", "#text" is "A"
AttrKeys == {kI, kJ, kText}
AllowedAt(k) == IF k = kI THEN {Str7, Num7} ELSE IF k = kJ THEN {Str7} ELSE {StrA}
AttrElems ==
    {Map(f) : f \in UNION {{g \in [D -> {Str7, Num7, StrA}] :
                              \A k \in D : g[k] \in AllowedAt(k)} :
                           D \in SUBSET AttrKeys}}

ElemI == Map(kI :> Str7)
ElemIText == Map(kI :> Str7 @@ kText :> StrA)
Members == {Str7, ElemI, ElemIText, List(<<ElemI>>)}
Lists == {List(l) : l \in UNION {[1..n -> Members] : n \in 0..MaxListLen}}

Elems == Scalars \cup {Nil} \cup AttrElems \cup Lists

\* the maps with one entry, under "a" or under the empty key
Under(vals) == {Map(k :> v) : k \in {kA, kEmpty}, v \in vals}
\* what the maps two levels down hold
DeepElems == Scalars \cup {Nil} \cup AttrElems
\* maps with two entries whose values may both hold the same key
Siblings == {Str7, ElemI, Map(kA :> ElemI)}
TwoKeyMaps == {Map(kA :> x @@ kEmpty :> y) : x \in Siblings, y \in Siblings}

\* <books><book>A</book><book>B</book></books>
RootBooks == Map(kBooks :> Map(kBook :> List(<<StrA, StrB>>)))
\* <book id="7">A</book>
RootBook7 == Map(kBook :> Map(kId :> Str7 @@ kText :> StrA))

Roots ==
    Under(Elems \cup Under(DeepElems)) \cup TwoKeyMaps
        \cup {Map(EmptyKV), RootBooks, RootBook7}

\* the "name:value" arguments callers build attribute maps from
AttrPairs == {<<"i", ":", "7">>, <<"i", ":", "A">>, <<"j", ":", "7">>}
MaxAttrs == 2
AttrArgs == UNION {[1..n -> AttrPairs] : n \in 0..MaxAttrs}
\* nil, the maps NewAttributeMap makes, and a map made empty by hand
Attrs ==
    {NewAttributeMap(kv).v : kv \in {a \in AttrArgs : NewAttributeMap(a).err = NilErr}}
        \cup {Map(EmptyKV)}

PathChars == {"a", "."}
Paths == Strs(PathChars, MaxPathLen) \cup {kBook, kBooks \o <<".">> \o kBook}
\* the optional arguments r ...bool
RArgs == {<<>>, <<TRUE>>, <<FALSE>>, <<TRUE, TRUE>>}
SearchKeys == {kA, kEmpty, kI, kText, kBook, kBooks}

(***************************************************************************)
(* The program: a caller holding m and attr calls the query functions.     *)
(***************************************************************************)
StreamIdle ==
    /\ pc = "idle" /\ input = <<>> /\ err = NilErr
    /\ reads = 0 /\ writes = 0 /\ printed = 0

Init ==
    /\ m \in Roots
    /\ attr \in Attrs
    /\ call = [op |-> "none"]
    /\ ret = Nil
    /\ useGoXmlEmptyElemSyntax = FALSE
    /\ StreamIdle

\* the arguments a caller may pass for the parameter arg of op: any of all
\* between calls, and after a call of op the one it passed, to make the same
\* call again
Args(op, arg, all) ==
    IF call.op = "none" THEN all
    ELSE IF call.op = op THEN {call[arg]}
    ELSE {}

\* v, err := MapValue(m, path, attr, r...)
CallMapValue ==
    /\ ret # Panic
    /\ \E path \in Args("MapValue", "path", Paths),
          r \in Args("MapValue", "r", RArgs), ord \in KeyOrders :
        /\ call' = [op |-> "MapValue", path |-> path, r |-> r]
        /\ IF RecastPanics(attr, r)
           THEN \* the keys met before the one whose value is no string are recast
                /\ \E done \in SUBSET {k \in DOMAIN attr.kv : attr.kv[k].t = "string"} :
                       attr' = recastAttr(attr, done)
                /\ ret' = Panic
           ELSE /\ attr' = (IF RecastAsked(r) /\ attr # Nil
                            THEN recastAttr(attr, DOMAIN attr.kv) ELSE attr)
                /\ ret' = MapValue(m, path, attr', ord)
    /\ UNCHANGED <<m, useGoXmlEmptyElemSyntax, pc, input, err, reads, writes, printed>>

\* vals := ValuesForKey(m, key)
CallValuesForKey ==
    /\ ret # Panic
    /\ \E key \in Args("ValuesForKey", "key", SearchKeys), ord \in KeyOrders :
        /\ call' = [op |-> "ValuesForKey", key |-> key]
        /\ ret' = ValuesForKey(m, key, ord)
    /\ UNCHANGED <<m, attr, useGoXmlEmptyElemSyntax, pc, input, err, reads, writes, printed>>

\* the caller is done with the result; m and attr stay in its hands
Return ==
    /\ ret # Panic
    /\ call.op # "none"
    /\ call' = [op |-> "none"]
    /\ ret' = Nil
    /\ UNCHANGED <<m, attr, useGoXmlEmptyElemSyntax, pc, input, err, reads, writes, printed>>

Next ==
    \/ CallMapValue
    \/ CallValuesForKey
    \/ Return

Spec == Init /\ [][Next]_vars

(***************************************************************************)
(* What the claims speak of, said without the code's loops.                *)
(***************************************************************************)
DotPos(path) == {i \in 1..Len(path) : path[i] = "."}
\* the position of the j-th dot; 0 before the first, Len+1 after the last
NthDot(path, j) ==
    IF j = 0 THEN 0
    ELSE IF j > Cardinality(DotPos(path)) THEN Len(path) + 1
    ELSE CHOOSE i \in DotPos(path) :
             Cardinality({d \in DotPos(path) : d < i}) = j - 1
\* the keys k1..kn of a path: what lies between its dots
Segments(path) ==
    [j \in 1..(Cardinality(DotPos(path)) + 1) |->
        SubSeq(path, NthDot(path, j - 1) + 1, NthDot(path, j) - 1)]

\* root[k1]...[ki] exists
RECURSIVE Defined(_, _, _)
\* root[k1]...[ki], when it exists
RECURSIVE Reach(_, _, _)
Reach(root, ks, i) ==
    IF i = 0 THEN root ELSE Reach(root, ks, i - 1).kv[ks[i]]
Defined(root, ks, i) ==
    \/ i = 0
    \/ /\ Defined(root, ks, i - 1)
       /\ IsMap(Reach(root, ks, i - 1))
       /\ ks[i] \in DOMAIN Reach(root, ks, i - 1).kv

\* what a walk over the keys ks of root has to return
WalkedAsClaimed(root, ks, r) ==
    LET n == Len(ks)
    IN /\ \A i \in 1..n :
             (/\ Defined(root, ks, i - 1)
              /\ IsMap(Reach(root, ks, i - 1))
              /\ ks[i] \notin DOMAIN Reach(root, ks, i - 1).kv)
                 => r = Ret(Nil, Err("no key in map: ", ks[i]))
       /\ \A i \in 1..(n - 1) :
             (Defined(root, ks, i) /\ ~IsMap(Reach(root, ks, i)))
                 => r = Ret(Nil, Err("no keys beyond: ", ks[i]))
       /\ Defined(root, ks, n) => r = Ret(Reach(root, ks, n), NilErr)

\* the last call was MapValue and it returned
Returned == call.op = "MapValue" /\ ret # Panic

\* C1 (as claimed): with no attribute filter, every non-empty path is split on
\* '.' into its keys, empty ones included, and walked: 'no key' naming ki when
\* the mapping reached lacks ki, 'no keys beyond' naming ki when the value at ki
\* is no mapping and keys remain, and else root[k1]...[kn] is returned.
C1_EveryPathIsWalked ==
    (Returned /\ attr = Nil /\ call.path # <<>>)
        => WalkedAsClaimed(m, Segments(call.path), ret)

\* The walk is as C1 claims for the paths that do not begin with a dot; a
\* path whose first key is empty is answered with the root itself.
WalkUnlessFirstKeyEmpty ==
    (Returned /\ attr = Nil)
        => IF call.path = <<>> \/ call.path[1] = "."
           THEN ret = Ret(m, NilErr)
           ELSE WalkedAsClaimed(m, Segments(call.path), ret)

\* attribute matching was applied by the last call, to the value MatchedValue
MatchApplied ==
    /\ Returned
    /\ attr # Nil
    /\ LET ks == Segments(call.path)
       IN /\ ~(ks[1] = <<>> /\ LenAttr(attr) = 0)
          /\ Defined(m, ks, Len(ks))
MatchedValue == Reach(m, Segments(call.path), Len(Segments(call.path)))

\* equal dynamic type and equal primitive value
SamePrimitive(x, y) ==
    \/ x.t = "string" /\ y.t = "string" /\ x.s = y.s
    \/ x.t = "bool" /\ y.t = "bool" /\ x.b = y.b
    \/ /\ x.t = "float64" /\ y.t = "float64"
       /\ x.k # "NaN" /\ x.k = y.k /\ x.mant = y.mant /\ x.exp = y.exp

\* every key of the filter a is in the mapping v with an equal value
AllAttrsEqual(v, a) ==
    \A k \in DOMAIN a : k \in DOMAIN v.kv /\ SamePrimitive(a[k], v.kv[k])
TextOrSelf(v) == IF kText \in DOMAIN v.kv THEN v.kv[kText] ELSE v

\* C2: matching a mapping v against a filter a succeeds iff every key of a is
\* in v with an equal value of the same primitive type ("7" does not match
\* 7.0); a missing key gives the no-such-attribute error, an unequal value the
\* mismatch error; on success the result is v["#text"] if present, else v.
C2_MappingMatch ==
    (MatchApplied /\ IsMap(MatchedValue)) =>
        LET v == MatchedValue
            a == attr.kv
        IN /\ ret.err = NilErr <=> AllAttrsEqual(v, a)
           /\ ret.err = NilErr => ret.v = TextOrSelf(v)
           /\ ret.err # NilErr =>
                /\ ret.v = Nil
                /\ \E k \in DOMAIN a :
                      \/ /\ k \notin DOMAIN v.kv
                         /\ ret.err = Err("no attribute with name: ", Tail(k))
                      \/ /\ k \in DOMAIN v.kv
                         /\ ~SamePrimitive(a[k], v.kv[k])
                         /\ ret.err = Err("no attribute key:value pair: ",
                                          Tail(k) \o <<":">> \o Sprint(a[k]))
           /\ (kI \in DOMAIN a /\ kI \in DOMAIN v.kv
                 /\ a[kI] = Str7 /\ v.kv[kI] = Num7) => ret.err # NilErr

\* the filter asks for the string "7" where the mapping holds the number 7.0,
\* and the call has failed with the mismatch error
C2_Witness ==
    /\ MatchApplied /\ IsMap(MatchedValue)
    /\ DOMAIN attr.kv = {kI} /\ attr.kv[kI] = Str7
    /\ kI \in DOMAIN MatchedValue.kv /\ MatchedValue.kv[kI] = Num7
    /\ ret.err = Err("no attribute key:value pair: ", <<"i", ":", "7">>)

\* v matches the filter a: a mapping with all attributes equal, or a list
\* with a member that matches
RECURSIVE Matches(_, _)
Matches(v, a) ==
    IF IsMap(v) THEN AllAttrsEqual(v, a)
    ELSE IF IsList(v) THEN \E i \in 1..Len(v.l) : Matches(v.l[i], a)
    ELSE FALSE
FirstMatch(l, a) ==
    CHOOSE i \in 1..Len(l) :
        Matches(l[i], a) /\ \A j \in 1..(i - 1) : ~Matches(l[j], a)
\* what a value that matches gives
RECURSIVE Outcome(_, _)
Outcome(v, a) ==
    IF IsMap(v) THEN TextOrSelf(v) ELSE Outcome(v.l[FirstMatch(v.l, a)], a)

\* C3: matching a list gives the outcome of its lowest-index member that
\* matches, whatever the members before it or after it do; it fails with the
\* no-matching-list-member error iff no member matches; a value that is
\* neither list nor mapping fails with the not-matchable error.
C3_ListMatch ==
    MatchApplied =>
        LET v == MatchedValue
            a == attr.kv
        IN /\ IsList(v) =>
                /\ ret.err = NilErr <=> \E i \in 1..Len(v.l) : Matches(v.l[i], a)
                /\ ret.err = NilErr =>
                      ret.v = Outcome(v.l[FirstMatch(v.l, a)], a)
                /\ ret.err # NilErr =>
                      ret = Ret(Nil, Err("no list member with matching attributes", <<>>))
           /\ (~IsList(v) /\ ~IsMap(v)) =>
                ret = Ret(Nil, Err("no match for attributes", <<>>))

\* a list whose first member fails and whose two other members match with
\* different outcomes; the first of the two was returned
C3_Witness ==
    /\ MatchApplied /\ IsList(MatchedValue)
    /\ LET l == MatchedValue.l
       IN /\ Len(l) >= 2
          /\ \E i, j \in 1..Len(l) :
                /\ i < j
                /\ Matches(l[i], attr.kv) /\ Matches(l[j], attr.kv)
                /\ Outcome(l[i], attr.kv) # Outcome(l[j], attr.kv)
                /\ ret = Ret(Outcome(l[i], attr.kv), NilErr)

\* the places of a tree: the steps (a map's key, a list's index) from its root
RECURSIVE Places(_)
Places(v) ==
    {<<>>} \cup
    (IF IsMap(v)
     THEN UNION {{<<[key |-> k]>> \o p : p \in Places(v.kv[k])} : k \in DOMAIN v.kv}
     ELSE IF IsList(v)
     THEN UNION {{<<[index |-> i]>> \o p : p \in Places(v.l[i])} : i \in 1..Len(v.l)}
     ELSE {})
\* the value at a place
RECURSIVE At(_, _)
At(v, p) ==
    IF p = <<>> THEN v
    ELSE IF IsMap(v) THEN At(v.kv[Head(p).key], Tail(p))
    ELSE At(v.l[Head(p).index], Tail(p))
\* the places of the mappings of a tree that contain the key k
MapsWith(v, k) == {p \in Places(v) : IsMap(At(v, p)) /\ k \in DOMAIN At(v, p).kv}
\* how often x occurs in the sequence s
Count(s, x) == Cardinality({i \in 1..Len(s) : s[i] = x})

\* C4: ValuesForKey returns one entry for each mapping of the tree, at any
\* depth, inside lists and inside values collected under k, that contains k:
\* the value stored there under k; when k occurs nowhere the result is nil (no
\* error, no panic).
C4_ValuesForKeyComplete ==
    call.op = "ValuesForKey" =>
        LET found == MapsWith(m, call.key)
        IN IF found = {} THEN ret = Nil
           ELSE /\ IsList(ret)
                /\ Len(ret.l) = Cardinality(found)
                /\ \A p \in found :
                      LET x == At(m, p).kv[call.key]
                      IN Count(ret.l, x) =
                           Cardinality({q \in found : At(m, q).kv[call.key] = x})

\* the key was found in a mapping and again inside the value collected there
C4_Witness ==
    /\ call.op = "ValuesForKey"
    /\ IsList(ret) /\ Len(ret.l) >= 2
    /\ \E p, q \in MapsWith(m, call.key) :
          Len(q) > Len(p) /\ SubSeq(q, 1, Len(p) + 1) = p \o <<[key |-> call.key]>>

\* the call ValuesForKey(m, "book") on {books: {book: ["A","B"]}}
BooksCall ==
    m = RootBooks /\ call = [op |-> "ValuesForKey", key |-> kBook]

\* C5 (as claimed): for {books: {book: ["A","B"]}} and key "book" the result
\* is the two-element list ["A","B"].
C5_BooksGivesTwoEntries == BooksCall => ret = List(<<StrA, StrB>>)

\* C5 (amended): for {books: {book: ["A","B"]}} and key "book" the result has
\* one entry, the list ["A","B"] stored under "book".
C5_BooksGivesTheList == BooksCall => ret = List(<<List(<<StrA, StrB>>)>>)

\* ValuesForKey(m, "book") has returned for {books: {book: ["A","B"]}}
C5_Witness == BooksCall /\ IsList(ret) /\ Len(ret.l) = 1 /\ IsList(ret.l[1])

\* C8 (as claimed): MapValue only reads its inputs: a call leaves the root
\* and the caller's attribute-match map as they were, with or without the
\* recast flag, so the same call made again returns what it returned before.
C8_MapValueOnlyReads ==
    [][call'.op = "MapValue" =>
          /\ m' = m
          /\ attr' = attr
          /\ call' = call => ret' = ret]_vars

(***************************************************************************)
(* recast on its own: a caller hands it one text and one flag.             *)
(***************************************************************************)
NumChars == {"0", "1", "7", ".", "-", "e"}
WordChars == {"t", "T", "r", "R", "u", "U", "e", "E", "f", "F"}
Texts ==
    Strs(NumChars, MaxNumLen) \cup Strs(WordChars, MaxWordLen)
        \cup Strs(NumChars \cup WordChars, MaxMixLen)

InitRecast ==
    /\ m = Map(EmptyKV)
    /\ attr = Nil
    /\ call = [op |-> "none"]
    /\ ret = Nil
    /\ useGoXmlEmptyElemSyntax = FALSE
    /\ StreamIdle

\* v := recast(s, r)
CallRecast ==
    /\ call.op = "none"
    /\ \E s \in Texts, r \in BOOLEAN :
        /\ call' = [op |-> "recast", s |-> s, r |-> r]
        /\ ret' = recast(s, r)
    /\ UNCHANGED <<m, attr, useGoXmlEmptyElemSyntax, pc, input, err, reads, writes, printed>>

NextRecast ==
    \/ CallRecast
    \/ Return

SpecRecast == InitRecast /\ [][NextRecast]_vars

One == Float("fin", 1, 0)
Zero == Float("fin", 0, 0)

\* recast returned as C7 describes it, when the texts Yes holds of stand for
\* true and those No holds of for false
RecastInOrder(Yes(_), No(_)) ==
    call.op = "recast" =>
        /\ ~call.r => ret = Str(call.s)
        /\ call.r =>
              /\ ParseFloat(call.s).ok => ret = ParseFloat(call.s).f
              /\ ~ParseFloat(call.s).ok =>
                    ret = (IF Yes(call.s) THEN Bool(TRUE)
                           ELSE IF No(call.s) THEN Bool(FALSE)
                           ELSE Str(call.s))
              /\ call.s = <<"1">> => ret = One
              /\ call.s = <<"0">> => ret = Zero

\* C7 (as claimed): with the flag on, a text that parses as a float64 gives
\* the number ("1" and "0" give 1.0 and 0.0); else a boolean token, in any
\* case, gives the boolean; else the string is returned.  With the flag off
\* the string is returned.
C7_BoolTokensInAnyCase ==
    RecastInOrder(
        LAMBDA s : ToLower(s) \in {<<"1">>, <<"t">>, <<"t","r","u","e">>},
        LAMBDA s : ToLower(s) \in {<<"0">>, <<"f">>, <<"f","a","l","s","e">>})

\* C7 (amended): the same, with the boolean tokens being exactly 1, t, T,
\* true, TRUE, True and 0, f, F, false, FALSE, False; any other spelling,
\* such as tRUE, is returned as the string it is.
C7_RecastInStrictOrder ==
    RecastInOrder(
        LAMBDA s : s \in {<<"1">>, <<"t">>, <<"T">>, <<"t","r","u","e">>,
                          <<"T","R","U","E">>, <<"T","r","u","e">>},
        LAMBDA s : s \in {<<"0">>, <<"f">>, <<"F">>, <<"f","a","l","s","e">>,
                          <<"F","A","L","S","E">>, <<"F","a","l","s","e">>})

\* recast("1", true) has returned the number 1.0
C7_Witness ==
    call = [op |-> "recast", s |-> <<"1">>, r |-> TRUE] /\ ret = One

(***************************************************************************)
(* The encoder of a value as XML text.  marshalMapToXmlIndent, pretty,     *)
(* Map.Xml and DefaultRootTag are declared outside the given sources; they *)
(* follow the specification's sections 3 and 4.5: a key is an element, a   *)
(* hyphen-prefixed key an attribute, "#text" the text, a list one sibling  *)
(* per member, an empty tag name the one error.                            *)
(***************************************************************************)
DefaultRootTag == <<"d", "o", "c">>
DefaultElementTag == <<"e", "l", "e", "m", "e", "n", "t">>

Bytes(b) == [t |-> "bytes", b |-> b]
NilBytes == [t |-> "bytes", b |-> <<>>]
\* the state of a bytes.Buffer and of err after a write
Wrote(buf, e) == [s |-> buf, err |-> e]
\* s.WriteString(str): the error of a bytes.Buffer is always nil
WriteString(buf, str) == Wrote(buf \o str, NilErr)

\* new(pretty), and p.Indent()
NewPretty(indent, padding) ==
    [indent |-> indent, padding |-> padding, cnt |-> 0, start |-> 0]
Indent(p) == [p EXCEPT !.padding = @ \o p.indent, !.cnt = @ + 1]

IsAttrKey(k) == Len(k) > 1 /\ k[1] = "-"
\* <tag/>, or <tag></tag> with the process-wide toggle
EmptyElem(tag) ==
    IF useGoXmlEmptyElemSyntax
    THEN <<"<">> \o tag \o <<">", "<", "/">> \o tag \o <<">">>
    ELSE <<"<">> \o tag \o <<"/", ">">>

RECURSIVE AttrText(_, _, _)
AttrText(kv, ks, i) ==
    IF i > Len(ks) THEN <<>>
    ELSE <<" ">> \o Tail(ks[i]) \o <<"=", "\"">> \o Sprint(kv[ks[i]]) \o <<"\"">>
         \o AttrText(kv, ks, i + 1)

\* e then rest, sep between them; the first error of the two otherwise
Joined(e, sep, rest) ==
    IF e.err # NilErr THEN e
    ELSE IF rest.err # NilErr THEN rest
    ELSE Wrote(e.s \o sep \o rest.s, NilErr)

\* the children kids between open and close, each on a line of its own when
\* nl and pad are set; open and close alone when there is no child
Enclosed(open, kids, noKids, nl, pad, close) ==
    IF kids.err # NilErr THEN kids
    ELSE IF noKids THEN Wrote(open \o close, NilErr)
    ELSE Wrote(open \o nl \o kids.s \o nl \o pad \o close, NilErr)

\* the text of the element tag holding val, or the error
RECURSIVE elemText(_, _, _, _, _)
\* the elements tags[i] holding vals[i], from the i-th on
RECURSIVE elemSeq(_, _, _, _, _, _)
elemSeq(doIndent, tags, vals, i, p, ord) ==
    IF i > Len(vals) THEN Wrote(<<>>, NilErr)
    ELSE Joined(elemText(doIndent, tags[i], vals[i], p, ord),
                IF doIndent /\ i < Len(vals) THEN <<"\n">> ELSE <<>>,
                elemSeq(doIndent, tags, vals, i + 1, p, ord))

\* the element of a map: its hyphen keys are attributes, "#text" is its text,
\* its other keys are children one level deeper
mapElem(doIndent, tag, kv, ks, pad, p, ord) ==
    Enclosed(pad \o <<"<">> \o tag \o AttrText(kv, SelectSeq(ks, IsAttrKey), 1)
                 \o <<">">> \o (IF kText \in DOMAIN kv THEN Sprint(kv[kText]) ELSE <<>>),
             elemSeq(doIndent, SelectSeq(ks, LAMBDA k : ~IsAttrKey(k) /\ k # kText),
                     [i \in 1..Len(SelectSeq(ks, LAMBDA k : ~IsAttrKey(k) /\ k # kText))
                        |-> kv[SelectSeq(ks, LAMBDA k : ~IsAttrKey(k) /\ k # kText)[i]]],
                     1, Indent(p), ord),
             SelectSeq(ks, LAMBDA k : ~IsAttrKey(k) /\ k # kText) = <<>>,
             IF doIndent THEN <<"\n">> ELSE <<>>,
             pad,
             <<"<", "/">> \o tag \o <<">">>)

elemText(doIndent, tag, val, p, ord) ==
    LET pad == IF doIndent THEN p.padding ELSE <<>>
    IN IF tag = <<>> THEN Wrote(<<>>, Err("invalid tag name", <<>>))
       ELSE IF val = Nil THEN Wrote(pad \o EmptyElem(tag), NilErr)
       ELSE IF IsList(val)
       THEN elemSeq(doIndent, [i \in 1..Len(val.l) |-> tag], val.l, 1, p, ord)
       ELSE IF IsMap(val)
       THEN mapElem(doIndent, tag, val.kv, RangeKeys(val.kv, ord), pad, p, ord)
       ELSE Wrote(pad \o <<"<">> \o tag \o <<">">> \o Sprint(val)
                      \o <<"<", "/">> \o tag \o <<">">>, NilErr)

\* the buffer and err once the element e, or its error, has come back
Marshalled(buf, e, nl) ==
    IF e.err # NilErr THEN Wrote(buf, e.err) ELSE Wrote(buf \o e.s \o nl, NilErr)

\* err = marshalMapToXmlIndent(doIndent, s, tag, val, p): the buffer and err
marshalMapToXmlIndent(doIndent, buf, tag, val, p, ord) ==
    Marshalled(buf, elemText(doIndent, tag, val, p, ord),
               IF doIndent /\ p.start = 0 THEN <<"\n">> ELSE <<>>)

\* b, err of a return: the bytes of the buffer and err
Returns(w) == Ret(Bytes(w.s), w.err)
\* if _, err = s.WriteString(..); err != nil { return nil, err }; b = s.Bytes();
\* return b, err: err is the one of the write w
ReturnsAfter(w) == IF w.err # NilErr THEN Ret(NilBytes, w.err) ELSE Returns(w)

\* m.Xml(rt) and m.XmlIndent(prefix, indent, rt) of a Map: the bytes and err
Xml(v, rt, ord) ==
    Returns(marshalMapToXmlIndent(FALSE, <<>>, rt, v, NewPretty(<<>>, <<>>), ord))
XmlIndent(v, prefix, indent, rt, ord) ==
    Returns(marshalMapToXmlIndent(TRUE, <<>>, rt, v, NewPretty(indent, prefix), ord))

\* rt and et of AnyXml and AnyXmlIndent (anyxml.go:60-70)
RootTag(tags) == IF Len(tags) \in {1, 2} THEN tags[1] ELSE DefaultRootTag
ElementTag(tags) == IF Len(tags) = 2 THEN tags[2] ELSE DefaultElementTag
\* for tag, val := range m, of a map with one entry
OnlyKey(kv) == CHOOSE k \in DOMAIN kv : TRUE

\* the body of the loop at anyxml.go:92-109 for the member vv: the sole key of
\* a map with one entry is the tag of its value, et is the tag of anything else
anyXmlMember(buf, vv, et, p, ord) ==
    LET single == IsMap(vv) /\ Cardinality(DOMAIN vv.kv) = 1
    IN marshalMapToXmlIndent(FALSE, buf,
                             IF single THEN OnlyKey(vv.kv) ELSE et,
                             IF single THEN vv.kv[OnlyKey(vv.kv)] ELSE vv,
                             p, ord)

\* the loop at anyxml.go:92-109 from the i-th member on: s and err at its end
RECURSIVE anyXmlRange(_, _, _, _, _, _)
\* if err != nil { break }, or the next member
anyXmlBreak(l, i, r, et, p, ord) ==
    IF r.err # NilErr THEN r ELSE anyXmlRange(l, i + 1, r, et, p, ord)
anyXmlRange(l, i, w, et, p, ord) ==
    IF i > Len(l) THEN w
    ELSE anyXmlBreak(l, i, anyXmlMember(w.s, l[i], et, p, ord), et, p, ord)

AnyXml(v, tags, ord) ==
    LET rt == RootTag(tags)
        et == ElementTag(tags)
        p == NewPretty(<<>>, <<>>)
    IN IF v = Nil THEN Ret(Bytes(EmptyElem(rt)), NilErr)
       ELSE IF IsList(v)
       THEN \* the err of the loop is assigned again by the closing write
            \* (anyxml.go:110)
            ReturnsAfter(WriteString(
                anyXmlRange(v.l, 1, WriteString(<<>>, <<"<">> \o rt \o <<">">>),
                            et, p, ord).s,
                <<"<", "/">> \o rt \o <<">">>))
       ELSE IF IsMap(v) THEN Xml(v, rt, ord)
       ELSE Returns(marshalMapToXmlIndent(FALSE, <<>>, rt, v, p, ord))

\* s, err and p after the member whose element came back as r: the newline
\* written after a map with several entries assigns err again (anyxml.go:176)
anyXmlIndentNewline(r, several, p) ==
    LET w == IF several THEN WriteString(r.s, <<"\n">>) ELSE r
    IN [s |-> w.s, err |-> w.err, p |-> p]

\* the body of the loop at anyxml.go:164-187 for the member vv.  A map with
\* several entries sets p.start; a member that is not a map clears it.
anyXmlIndentMember(buf, vv, et, p, ord) ==
    LET single == IsMap(vv) /\ Cardinality(DOMAIN vv.kv) = 1
        p1 == IF single THEN p
              ELSE IF IsMap(vv) THEN [p EXCEPT !.start = 1]
              ELSE [p EXCEPT !.start = 0]
    IN anyXmlIndentNewline(
           marshalMapToXmlIndent(TRUE, buf,
                                 IF single THEN OnlyKey(vv.kv) ELSE et,
                                 IF single THEN vv.kv[OnlyKey(vv.kv)] ELSE vv,
                                 p1, ord),
           IsMap(vv) /\ ~single, p1)

\* the loop at anyxml.go:164-187 from the i-th member on: s and err at its end
RECURSIVE anyXmlIndentRange(_, _, _, _, _, _)
\* if err != nil { break }, or the next member
anyXmlIndentBreak(l, i, r, et, ord) ==
    IF r.err # NilErr THEN Wrote(r.s, r.err)
    ELSE anyXmlIndentRange(l, i + 1, Wrote(r.s, r.err), et, r.p, ord)
anyXmlIndentRange(l, i, w, et, p, ord) ==
    IF i > Len(l) THEN w
    ELSE anyXmlIndentBreak(l, i, anyXmlIndentMember(w.s, l[i], et, p, ord), et, ord)

AnyXmlIndent(v, prefix, indent, tags, ord) ==
    LET rt == RootTag(tags)
        et == ElementTag(tags)
        p == NewPretty(indent, prefix)
    IN IF v = Nil THEN Ret(Bytes(prefix \o EmptyElem(rt)), NilErr)
       ELSE IF IsList(v)
       THEN \* the err of the loop is assigned again by the closing write
            \* (anyxml.go:188)
            ReturnsAfter(WriteString(
                anyXmlIndentRange(v.l, 1,
                                  WriteString(<<>>, <<"<">> \o rt \o <<">", "\n">>),
                                  et, Indent(p), ord).s,
                <<"<", "/">> \o rt \o <<">">>))
       ELSE IF IsMap(v) THEN XmlIndent(v, prefix, indent, rt, ord)
       ELSE Returns(marshalMapToXmlIndent(TRUE, <<>>, rt, v, p, ord))

(***************************************************************************)
(* The callers of the encoder.                                             *)
(***************************************************************************)
StrX == Str(<<"x">>)
StrZ == Str(<<"z">>)
tR == <<"r">>
tItem == <<"i", "t", "e", "m">>

EncMembers ==
    { StrX, Nil, Map(EmptyKV),
      Map(kY :> StrZ), Map(kEmpty :> StrZ),
      Map(kY :> StrZ @@ kW :> StrX),
      Map(kY :> StrZ @@ kEmpty :> StrX),
      Map(kId :> Str7 @@ kText :> StrX),
      Map(kY :> Map(kEmpty :> StrZ)),
      Map(kY :> List(<<StrX, StrZ>>)) }
EncLists ==
    { List(l) : l \in UNION { [1..n -> EncMembers] : n \in 0..MaxEncLen } }
EncValues == EncLists \cup {Nil, StrX, Map(kY :> StrZ), Map(kEmpty :> StrZ)}
TagArgs == { <<>>, <<tR>>, <<tR, tItem>>, <<tR, <<>>>>, <<tR, tItem, tItem>> }
Prefixes == { <<>>, <<" ">> }
Indents == { <<" ", " ">> }

InitEncode ==
    /\ m = Nil
    /\ attr = Nil
    /\ call = [op |-> "none"]
    /\ ret = Nil
    /\ useGoXmlEmptyElemSyntax \in BOOLEAN
    /\ StreamIdle

CallAnyXml ==
    /\ call.op = "none"
    /\ \E v \in EncValues, tags \in TagArgs, ord \in KeyOrders :
          /\ call' = [op |-> "AnyXml", v |-> v, tags |-> tags]
          /\ ret' = AnyXml(v, tags, ord)
    /\ UNCHANGED <<m, attr, useGoXmlEmptyElemSyntax, pc, input, err, reads,
                   writes, printed>>

CallAnyXmlIndent ==
    /\ call.op = "none"
    /\ \E v \in EncValues, prefix \in Prefixes, indent \in Indents,
          tags \in TagArgs, ord \in KeyOrders :
          /\ call' = [op |-> "AnyXmlIndent", v |-> v, prefix |-> prefix,
                      indent |-> indent, tags |-> tags]
          /\ ret' = AnyXmlIndent(v, prefix, indent, tags, ord)
    /\ UNCHANGED <<m, attr, useGoXmlEmptyElemSyntax, pc, input, err, reads,
                   writes, printed>>

NextEncode == CallAnyXml \/ CallAnyXmlIndent \/ Return
SpecEncode == InitEncode /\ [][NextEncode]_vars

\* the encoding of val under tag fails: some element of it has an empty name
RECURSIVE EmptyTagIn(_, _)
EmptyTagIn(tag, val) ==
    \/ tag = <<>>
    \/ /\ val # Nil
       /\ IsList(val)
       /\ \E i \in 1..Len(val.l) : EmptyTagIn(tag, val.l[i])
    \/ /\ val # Nil
       /\ IsMap(val)
       /\ \E k \in DOMAIN val.kv :
             ~IsAttrKey(k) /\ k # kText /\ EmptyTagIn(k, val.kv[k])

SoleKey(vv) == vv # Nil /\ IsMap(vv) /\ Cardinality(DOMAIN vv.kv) = 1
MemberTag(vv, et) == IF SoleKey(vv) THEN OnlyKey(vv.kv) ELSE et
MemberContent(vv) == IF SoleKey(vv) THEN vv.kv[OnlyKey(vv.kv)] ELSE vv
MemberFails(vv, et) == EmptyTagIn(MemberTag(vv, et), MemberContent(vv))
ListCall(ops) == call.op \in ops /\ call.v # Nil /\ IsList(call.v)

\* C6: when the encoding of a member of a top-level list fails, AnyXml and
\* AnyXmlIndent return a non-nil error, not a nil error with partial output.
C6_MemberErrorsReturned ==
    (/\ ListCall({"AnyXml", "AnyXmlIndent"})
     /\ \E i \in 1..Len(call.v.l) :
           MemberFails(call.v.l[i], ElementTag(call.tags)))
    => ret.err # NilErr

\* what does hold: an error of a call on a list is never reported at all
ListCallsNeverFail ==
    ListCall({"AnyXml", "AnyXmlIndent"}) => ret.err = NilErr

RECURSIVE Concat(_, _)
Concat(parts, i) ==
    IF i > Len(parts) THEN <<>> ELSE parts[i] \o Concat(parts, i + 1)

\* the element of the i-th member as the claim names it
MemberElem(l, i, et, ord) ==
    elemText(FALSE, MemberTag(l[i], et), MemberContent(l[i]),
             NewPretty(<<>>, <<>>), ord)
\* <rt>, one element per member in list order, </rt>
Wrapped(l, rt, et, ord) ==
    <<"<">> \o rt \o <<">">>
    \o Concat([i \in 1..Len(l) |-> MemberElem(l, i, et, ord).s], 1)
    \o <<"<", "/">> \o rt \o <<">">>

\* C9: AnyXml of a top-level list that reports success has emitted the opening
\* root tag, one encoded element per member in list order and the closing root
\* tag, a member with exactly one key under that key and any other under the
\* element tag; ["x", {"y":"z"}] under "r" and "item" gives
\* <r><item>x</item><y>z</y></r>.
C9_OneElementPerMember ==
    (ListCall({"AnyXml"}) /\ ret.err = NilErr)
    => /\ \E ord \in KeyOrders :
             /\ \A i \in 1..Len(call.v.l) :
                   MemberElem(call.v.l, i, ElementTag(call.tags), ord).err = NilErr
             /\ ret.v = Bytes(Wrapped(call.v.l, RootTag(call.tags),
                                      ElementTag(call.tags), ord))
       /\ (call.v = List(<<StrX, Map(kY :> StrZ)>>) /\ call.tags = <<tR, tItem>>)
          => ret.v = Bytes(<<"<", "r", ">">> \o <<"<">> \o tItem \o <<">", "x", "<", "/">>
                           \o tItem \o <<">", "<", "y", ">", "z", "<", "/", "y", ">",
                                        "<", "/", "r", ">">>)

\* what does hold: the claimed output whenever no member fails to encode
OneElementPerEncodableMember ==
    (/\ ListCall({"AnyXml"})
     /\ \A i \in 1..Len(call.v.l) :
           ~MemberFails(call.v.l[i], ElementTag(call.tags)))
    => /\ ret.err = NilErr
       /\ \E ord \in KeyOrders :
             ret.v = Bytes(Wrapped(call.v.l, RootTag(call.tags),
                                   ElementTag(call.tags), ord))
       /\ (call.v = List(<<StrX, Map(kY :> StrZ)>>) /\ call.tags = <<tR, tItem>>)
          => ret.v = Bytes(<<"<", "r", ">">> \o <<"<">> \o tItem \o <<">", "x", "<", "/">>
                           \o tItem \o <<">", "<", "y", ">", "z", "<", "/", "y", ">",
                                        "<", "/", "r", ">">>)

(***************************************************************************)
(* The stream driver: main of the command converts one message after the   *)
(* other.  x2j.XmlReaderToJsonWriter is declared outside the given         *)
(* sources; it follows the specification's section 6: it reads one         *)
(* document, writes its JSON text, and returns the error of the read.      *)
(* input is what the reader will yield: a read of an empty input blocks.   *)
(***************************************************************************)
EOF == Err("EOF", <<>>)
Malformed == Err("malformed", <<>>)
Messages == {"doc", "bad"}
Inputs ==
    LET msgs == UNION { [1..n -> Messages] : n \in 0..MaxMsgs }
    IN msgs \cup { i \o <<"eof">> : i \in msgs }

InitStream ==
    /\ m = Nil
    /\ attr = Nil
    /\ call = [op |-> "none"]
    /\ ret = Nil
    /\ useGoXmlEmptyElemSyntax = FALSE
    /\ pc = "call"
    /\ input \in Inputs
    /\ err = NilErr
    /\ reads = 0
    /\ writes = 0
    /\ printed = 0

\* _, _, err := x2j.XmlReaderToJsonWriter(os.Stdin, os.Stdout)
XmlReaderToJsonWriter ==
    /\ pc = "call"
    /\ input # <<>>
    /\ reads' = reads + 1
    /\ writes' = IF Head(input) = "doc" THEN writes + 1 ELSE writes
    /\ err' = IF Head(input) = "doc" THEN NilErr
              ELSE IF Head(input) = "eof" THEN EOF
              ELSE Malformed
    /\ input' = IF Head(input) = "eof" THEN input ELSE Tail(input)
    /\ pc' = "check"
    /\ UNCHANGED <<m, attr, call, ret, useGoXmlEmptyElemSyntax, printed>>

\* the driver that prints an error and goes on with the next message
mainGoesOn ==
    /\ pc = "check"
    /\ IF err = EOF THEN pc' = "done" /\ printed' = printed
       ELSE IF err # NilErr THEN pc' = "call" /\ printed' = printed + 1
       ELSE pc' = "call" /\ printed' = printed
    /\ UNCHANGED <<m, attr, call, ret, useGoXmlEmptyElemSyntax, input, err,
                   reads, writes>>

\* the tests of err in the loop of main
main ==
    /\ pc = "check"
    /\ IF err = EOF THEN pc' = "done" /\ printed' = printed
       ELSE IF err # NilErr THEN pc' = "done" /\ printed' = printed + 1
       ELSE pc' = "call" /\ printed' = printed
    /\ UNCHANGED <<m, attr, call, ret, useGoXmlEmptyElemSyntax, input, err,
                   reads, writes>>

NextStream == XmlReaderToJsonWriter \/ main
\* the loop is the only thread of the process: it takes its next step
SpecStream ==
    InitStream /\ [][NextStream]_vars
    /\ WF_vars(XmlReaderToJsonWriter) /\ WF_vars(main)

\* the input still holds an end of stream or a message that fails to convert
WillFail == \E i \in DOMAIN input : input[i] \in {"bad", "eof"}

\* C10: an iteration converts one message; the loop goes on after a success
\* and stops at the first conversion that returns an error, with no read or
\* write afterwards; end of stream stops it silently, any other error is
\* printed once; and the loop ends whenever the input yields an end of stream
\* or an error.
C10_StreamDriver ==
    /\ [][pc = "call" => /\ pc' = "check"
                         /\ reads' = reads + 1
                         /\ writes' \in {writes, writes + 1}
                         /\ (writes' = writes) = (err' # NilErr)]_vars
    /\ [][pc = "check" => /\ reads' = reads
                          /\ writes' = writes
                          /\ (err = NilErr) = (pc' = "call")
                          /\ (err # NilErr) = (pc' = "done")
                          /\ printed' = (IF err \in {NilErr, EOF} THEN printed
                                         ELSE printed + 1)]_vars
    /\ [][pc = "done" => /\ pc' = "done"
                         /\ reads' = reads
                         /\ writes' = writes
                         /\ printed' = printed]_vars
    /\ [](printed <= 1)
    /\ [](pc = "done" => err # NilErr /\ (printed = 1) = (err # EOF))
    /\ (WillFail ~> pc = "done")

\* the loop has stopped at a message that failed to convert, after a message
\* it converted and before one it never read
C10_Witness ==
    /\ pc = "done"
    /\ err = Malformed
    /\ printed = 1
    /\ writes >= 1
    /\ input # <<>>

(***************************************************************************)
(* MapValue with an attribute map that is not nil and has no entry.        *)
(***************************************************************************)
\* what MapValue returns for the path of the call when attr is nil
WithNilAttr == MapValue(m, call.path, Nil, KeyOrder)
EmptyAttrCall == call.op = "MapValue" /\ attr = Map(EmptyKV)

\* C11: MapValue with a non-nil attribute map that has no entry returns, for
\* every root and every path, the value or the error it returns with a nil
\* attribute map.
C11_EmptyAttrIsNoFilter ==
    EmptyAttrCall => ret = WithNilAttr

\* what does hold: the two agree when the first key of the path is empty, when
\* the walk fails, and when the walk ends at a map that has no "#text"
EmptyAttrIsNoFilterAtPlainMaps ==
    (/\ EmptyAttrCall
     /\ \/ Split(call.path, ".")[1] = <<>>
        \/ WithNilAttr.err # NilErr
        \/ IsMap(WithNilAttr.v) /\ kText \notin DOMAIN WithNilAttr.v.kv)
    => ret = WithNilAttr

\* and they differ everywhere else: at a scalar or nil the empty map gives an
\* error, at a map with "#text" its text, at a list its first member that is
\* a map, or an error
EmptyAttrFiltersElsewhere ==
    (/\ EmptyAttrCall
     /\ Split(call.path, ".")[1] # <<>>
     /\ WithNilAttr.err = NilErr
     /\ ~(IsMap(WithNilAttr.v) /\ kText \notin DOMAIN WithNilAttr.v.kv))
    => /\ ret # WithNilAttr
       /\ ret = hasAttributes(WithNilAttr.v, EmptyKV, KeyOrder)

====
